---- MODULE Spec2Model ----
(***************************************************************************)
(* package-lock-merge-driver: the driver's registration in Git's layered   *)
(* configuration (install / uninstall, src/lib.ts and the CLI) and the     *)
(* merge engine (merge, src/lib.ts), as state machines.                    *)
(***************************************************************************)
EXTENDS Integers, Sequences, FiniteSets, TLC

(* ------------------------------------------------------------------ *)
(* Bounds                                                               *)
(* ------------------------------------------------------------------ *)
\* number of CLI commands run in one behaviour
MaxOps == 2
\* length (in chunks) of the attributes-file contents fed to the editors
MaxLen == 3

(* ------------------------------------------------------------------ *)
(* Names, paths and values                                              *)
(* ------------------------------------------------------------------ *)
\* driver names the commands are run with (slugified by the CLI)
Drivers == {"package-lock-merge-driver"}
\* a driver name that only occurs in lines the user wrote
OtherDriver == "other-driver"

LocalConfig == ".git/config"
LocalInclude == ".git/config.inc"
GlobalConfig == "/home/.gitconfig"
GlobalInclude == "/home/.gitconfig.inc"
CfgFiles == {LocalConfig, LocalInclude, GlobalConfig, GlobalInclude}

\* the file `git config set --local|--global` writes to
MainFile(local) == IF local THEN LocalConfig ELSE GlobalConfig
\* the file reached from the main file of the scope through [include]
IncludeFile(local) == IF local THEN LocalInclude ELSE GlobalInclude

GitDir == ".git"
Home == "/home"
XdgConfigHome == "/xdg"
\* path.join
PathJoin(a, b) == a \o "/" \o b
LocalAttributes == PathJoin(PathJoin(GitDir, "info"), "attributes")
HomeAttributes == PathJoin(PathJoin(PathJoin(Home, ".config"), "git"), "attributes")
XdgAttributes == PathJoin(PathJoin(XdgConfigHome, "git"), "attributes")
\* a core.attributesfile value the user configured, and its expansion
UserAttributesValue == "~/.gitattributes"
UserAttributes == PathJoin(Home, ".gitattributes")
AttrPaths == {LocalAttributes, HomeAttributes, XdgAttributes, UserAttributes}

\* path.dirname of the attributes paths
Dirname(p) ==
  CASE p = LocalAttributes -> ".git/info"
    [] p = HomeAttributes -> "/home/.config/git"
    [] p = XdgAttributes -> "/xdg/git"
    [] p = UserAttributes -> "/home"
    [] OTHER -> "."

NoVal == "<unset>"
CoreAttributesfile == <<"core", "", "attributesfile">>
MergeKey(d, k) == <<"merge", d, k>>
MergeKeys(d) == {MergeKey(d, "name"), MergeKey(d, "driver"), MergeKey(d, "created")}
Keys == {CoreAttributesfile} \cup UNION {MergeKeys(d) : d \in Drivers}

DriverDescription == "automatically merge npm lockfiles"
DefaultCommand == "npx package-lock-merge-driver merge %A %O %B %P"
CustomCommand == "node dist/cli.js merge %A %O %B %P"
NoCommand == "<undefined>"

(* ------------------------------------------------------------------ *)
(* File contents: a sequence of chunks, a chunk being a newline or the  *)
(* text of one line                                                     *)
(* ------------------------------------------------------------------ *)
NoAttr == "<none>"
NL == [pat |-> "\n", mergeAttr |-> NoAttr]
\* `package-lock.json merge=<d>`
AssocText(d) == [pat |-> "package-lock.json", mergeAttr |-> d]
\* `package-lock.json merge=<d> -diff`: the text after `merge=` runs to the
\* end of the line
AssocMoreText(d) == [pat |-> "package-lock.json", mergeAttr |-> d \o " -diff"]
\* `*.lock merge=`: a merge attribute set to the empty string
UnsetMergeText == [pat |-> "*.lock", mergeAttr |-> ""]
\* a line without a merge attribute
PlainText == [pat |-> "*.txt text", mergeAttr |-> NoAttr]
\* a line of blanks
BlankText == [pat |-> " ", mergeAttr |-> NoAttr]
\* the empty string between two newlines
EmptyLine == [pat |-> "", mergeAttr |-> NoAttr]
\* one `key = value` line of a configuration file
ConfigText == [pat |-> "\tkey = value", mergeAttr |-> NoAttr]

Absent == [exists |-> FALSE, data |-> <<>>]
File(data) == [exists |-> TRUE, data |-> data]

\* String.prototype.split(/\r?\n/) and split('\n'): the lines between newlines
RECURSIVE SplitFrom(_, _, _)
SplitFrom(s, i, cur) ==
  IF i > Len(s) THEN <<cur>>
  ELSE IF s[i] = NL THEN <<cur>> \o SplitFrom(s, i + 1, EmptyLine)
  ELSE SplitFrom(s, i + 1, s[i])
Split(s) == SplitFrom(s, 1, EmptyLine)

\* the characters of one line
LineChars(l) == IF l = EmptyLine THEN <<>> ELSE <<l>>

\* Array.prototype.join('\n')
RECURSIVE Join(_)
Join(ls) ==
  IF Len(ls) = 0 THEN <<>>
  ELSE IF Len(ls) = 1 THEN LineChars(ls[1])
  ELSE LineChars(ls[1]) \o <<NL>> \o Join(Tail(ls))

\* String.prototype.trim() yields the empty string
IsBlankString(s) == \A i \in 1..Len(s) : s[i] \in {NL, BlankText}

(* ------------------------------------------------------------------ *)
(* AttributesEditor                                                     *)
(* ------------------------------------------------------------------ *)
\* line.match(/package-lock\.json\smerge\s*=\s*<driverName>$/)
MatchesAssociation(l, driverName) ==
  l.pat = "package-lock.json" /\ l.mergeAttr = driverName

\* updateGitAttributes without the filter that drops the driver's old line
UpdateGitAttributes_KeepsOldLine(file, driverName) ==
  LET read == IF file.exists THEN file.data ELSE <<>>
      attrContents == IF read # <<>> /\ read[Len(read)] # NL THEN <<NL>> ELSE read
  IN attrContents \o <<AssocText(driverName), NL>>

\* the content updateGitAttributes writes, from the file it read
UpdateGitAttributes(file, driverName) ==
  LET read == IF file.exists
              THEN Join(SelectSeq(Split(file.data),
                          LAMBDA l : ~MatchesAssociation(l, driverName)))
              ELSE <<>>
      attrContents == IF read # <<>> /\ read[Len(read)] # NL
                      THEN <<NL>>
                      ELSE read
  IN attrContents \o <<AssocText(driverName), NL>>

\* the callback of uninstall's reduce: is the line kept?
KeepsLine(attr, driverName) ==
  \/ attr.mergeAttr = NoAttr
  \/ (attr.mergeAttr # "" /\ attr.mergeAttr # driverName)

RECURSIVE ConcatLines(_)
ConcatLines(ls) ==
  IF Len(ls) = 0 THEN <<>>
  ELSE LineChars(ls[1]) \o <<NL>> \o ConcatLines(Tail(ls))

\* newAttrs of uninstall, from the content it read
RemoveAssociation(data, driverName) ==
  ConcatLines(SelectSeq(Split(data), LAMBDA l : KeepsLine(l, driverName)))

\* shouldDeleteAttrs without the provenance test
ShouldDeleteAttrs_IgnoresProvenance(fromCreated, newAttrs) ==
  IsBlankString(newAttrs)

\* shouldDeleteAttrs of uninstall once newAttrs is known
ShouldDeleteAttrs(fromCreated, newAttrs) ==
  fromCreated /\ IsBlankString(newAttrs)

(* ------------------------------------------------------------------ *)
(* ConfigStore and AttributesLocator                                    *)
(* ------------------------------------------------------------------ *)
NoEntry == [filepath |-> "", value |-> ""]

\* `git config --show-origin --list --includes --local|--global`, parsed
GetGitConfigWithOrigins(c, local) ==
  [k \in Keys |->
     IF c[MainFile(local)][k] # NoVal
     THEN [filepath |-> MainFile(local), value |-> c[MainFile(local)][k]]
     ELSE IF c[IncludeFile(local)][k] # NoVal
     THEN [filepath |-> IncludeFile(local), value |-> c[IncludeFile(local)][k]]
     ELSE NoEntry]

\* how git answers during one command: `git config --list` of the scope
\* the command was asked to act on, the read-back of core.attributesfile
\* once it was set, and `git config --remove-section`
GitOk == [list |-> "ok", confirm |-> "ok", remove |-> "ok"]
InstallOutcomes ==
  {GitOk, [GitOk EXCEPT !.list = "fails"], [GitOk EXCEPT !.confirm = "unconfirmed"]}
UninstallOutcomes ==
  InstallOutcomes
  \cup {[GitOk EXCEPT !.remove = "no such section"], [GitOk EXCEPT !.remove = "error"]}

NoGitConfig == [k \in Keys |-> NoEntry]

\* a read that takes a failed listing for an empty configuration
ReadGitConfig_SwallowsError(c, local, git) ==
  IF git.list = "fails"
  THEN [ok |-> TRUE, gitConfig |-> NoGitConfig]
  ELSE [ok |-> TRUE, gitConfig |-> GetGitConfigWithOrigins(c, local)]

\* getGitConfigWithOrigins(local) as the command sees it: it throws when
\* the listing fails
ReadGitConfig(c, local, git) ==
  IF git.list = "fails"
  THEN [ok |-> FALSE, gitConfig |-> NoGitConfig]
  ELSE [ok |-> TRUE, gitConfig |-> GetGitConfigWithOrigins(c, local)]

\* a catch that lets no error of --remove-section pass
IsNoSuchSection_Never(message) == FALSE

\* err.message.match(/no such section/gi)
IsNoSuchSection(message) == message = "no such section"

Undefined == [gitAttributesFilepath |-> "", source |-> ""]

GetAttributesFilepathFromConfig(gitConfig) ==
  IF gitConfig[CoreAttributesfile].value # ""
  THEN [gitAttributesFilepath |-> gitConfig[CoreAttributesfile].value,
        source |-> gitConfig[CoreAttributesfile].filepath]
  ELSE Undefined

\* `git config set --local|--global <key> <value>`
ConfigSet(c, local, k, v) == [c EXCEPT ![MainFile(local)][k] = v]

\* a remove-section that leaves the section in place
RemoveSection_KeepsSection(c, file, driverName) == c

\* `git config --file=<file> --remove-section merge.<driverName>`
RemoveSection(c, file, driverName) ==
  [c EXCEPT ![file] = [k \in Keys |-> IF k \in MergeKeys(driverName)
                                      THEN NoVal ELSE c[file][k]]]

\* a setAttributesFilepath that takes the path it wrote for granted
SetAttributesFilepath_Unchecked(c, filepath, driverName, local, git) ==
  LET c1 == ConfigSet(c, local, CoreAttributesfile, filepath)
  IN [ok |-> TRUE,
      cfg |-> ConfigSet(c1, local, MergeKey(driverName, "created"), MainFile(local)),
      gitAttributesFilepath |-> filepath,
      source |-> MainFile(local)]

SetAttributesFilepath(c, filepath, driverName, local, git) ==
  LET c1 == ConfigSet(c, local, CoreAttributesfile, filepath)
      r == IF git.confirm = "ok"
           THEN GetAttributesFilepathFromConfig(GetGitConfigWithOrigins(c1, local))
           ELSE Undefined
  IN IF r.gitAttributesFilepath = "" \/ r.gitAttributesFilepath # filepath
        \/ r.source = ""
     THEN [ok |-> FALSE, cfg |-> c1, gitAttributesFilepath |-> "", source |-> ""]
     ELSE [ok |-> TRUE,
           cfg |-> ConfigSet(c1, local, MergeKey(driverName, "created"), r.source),
           gitAttributesFilepath |-> r.gitAttributesFilepath,
           source |-> r.source]

\* gitAttributesFilepath.replace(/^\s*~\//, `${home}/`)
ExpandTilde(p) ==
  IF p = UserAttributesValue THEN PathJoin(Home, ".gitattributes") ELSE p

\* a locator that computes and stores the default path of the scope
\* whatever the scope has configured
FindGitAttributes_IgnoresSetting(c, driverName, hasConfig, gitConfig, localArg, xdgSet, git) ==
  LET local == IF hasConfig THEN FALSE ELSE localArg
      fallback == IF local THEN PathJoin(PathJoin(GitDir, "info"), "attributes")
                  ELSE IF xdgSet
                  THEN PathJoin(PathJoin(XdgConfigHome, "git"), "attributes")
                  ELSE PathJoin(PathJoin(PathJoin(Home, ".config"), "git"), "attributes")
      set == SetAttributesFilepath(c, fallback, driverName, local, git)
  IN [ok |-> set.ok, cfg |-> set.cfg,
      gitAttributesFilepath |-> ExpandTilde(fallback),
      source |-> set.source]

\* findGitAttributes(driverName, local) and findGitAttributes(driverName,
\* gitConfig): hasConfig tells which overload is called
FindGitAttributes(c, driverName, hasConfig, gitConfig, localArg, xdgSet, git) ==
  LET local == IF hasConfig THEN FALSE ELSE localArg
      given == IF hasConfig THEN GetAttributesFilepathFromConfig(gitConfig)
               ELSE Undefined
      listed == IF hasConfig
                THEN [ok |-> TRUE, gitConfig |-> GetGitConfigWithOrigins(c, local)]
                ELSE ReadGitConfig(c, local, git)
      read == GetAttributesFilepathFromConfig(listed.gitConfig)
      fallback == IF local THEN PathJoin(PathJoin(GitDir, "info"), "attributes")
                  ELSE IF xdgSet
                  THEN PathJoin(PathJoin(XdgConfigHome, "git"), "attributes")
                  ELSE PathJoin(PathJoin(PathJoin(Home, ".config"), "git"), "attributes")
      set == SetAttributesFilepath(c, fallback, driverName, local, git)
  IN IF given.gitAttributesFilepath # ""
     THEN [ok |-> TRUE, cfg |-> c,
           gitAttributesFilepath |-> ExpandTilde(given.gitAttributesFilepath),
           source |-> given.source]
     ELSE IF ~listed.ok
     THEN [ok |-> FALSE, cfg |-> c, gitAttributesFilepath |-> "", source |-> ""]
     ELSE IF read.gitAttributesFilepath # ""
     THEN [ok |-> TRUE, cfg |-> c,
           gitAttributesFilepath |-> ExpandTilde(read.gitAttributesFilepath),
           source |-> read.source]
     ELSE [ok |-> set.ok, cfg |-> set.cfg,
           gitAttributesFilepath |-> ExpandTilde(fallback),
           source |-> set.source]

\* findInstalled reporting a driver in the main file of the scope whatever
\* the configuration holds
FindInstalled_AlwaysFound(c, driverName, local) ==
  LET gitConfig == GetGitConfigWithOrigins(c, local)
  IN [driverSource |-> MainFile(local),
      gitAttributesFilepath |-> gitConfig[MergeKey(driverName, "created")].value,
      gitConfig |-> gitConfig]

\* findInstalled
FindInstalled(c, driverName, local) ==
  LET gitConfig == GetGitConfigWithOrigins(c, local)
  IN IF gitConfig[MergeKey(driverName, "driver")].filepath # ""
     THEN [driverSource |-> gitConfig[MergeKey(driverName, "driver")].filepath,
           gitAttributesFilepath |-> gitConfig[MergeKey(driverName, "created")].value,
           gitConfig |-> gitConfig]
     ELSE [driverSource |-> "", gitAttributesFilepath |-> "", gitConfig |-> gitConfig]

(* ------------------------------------------------------------------ *)
(* State                                                                *)
(* ------------------------------------------------------------------ *)
VARIABLES
  cfg,      \* the keys each Git configuration file holds
  cfgTail,  \* blank lines at the end of each configuration file
  fs,       \* the attributes files on disk
  dirs,     \* the directories on disk
  xdg,      \* is XDG_CONFIG_HOME set in the environment?
  pc,       \* "idle", or the command that is running
  inst,     \* the running install: its arguments, results and three tasks
  nops,     \* commands started so far
  hist,     \* the commands that have finished, oldest first
  edFile,   \* AttributesEditor on its own: the file under edit
  edLog,    \* ... and the edits applied to it, oldest first
  npm,      \* what `npm --version` answers in this environment
  lock,     \* the package-lock.json of each directory from the root to the cwd
  manifest, \* the package.json next to the lockfile
  nm,       \* the node_modules directories on disk, by workspace glob
  trashed,  \* the node_modules directories moved to the trash
  mpc,      \* where the merge command is
  m,        \* the running merge: its arguments, tasks and result
  exitCode  \* process.exitCode of the merge command

cfgVars == <<cfg, cfgTail, fs, dirs, xdg, pc, inst, nops, hist>>
edVars == <<edFile, edLog>>
mVars == <<npm, lock, manifest, nm, trashed, mpc, m, exitCode>>

NoInst == [driverName |-> "", commandArg |-> "", command |-> "", local |-> FALSE,
           gitAttributesFilepath |-> "", source |-> "",
           tConfig |-> "done", tMkdir |-> "done", tAttrs |-> "done",
           attrContents |-> <<>>,
           pre |-> Absent, wroteCreated |-> FALSE, git |-> GitOk, setPath |-> FALSE]

EmptyConfig == [k \in Keys |-> NoVal]

\* the text of a configuration file: a line per key, then the blank lines
ConfigFileData(c, tail, file) ==
  LET n == Cardinality({k \in Keys : c[file][k] # NoVal})
  IN ConcatLines([i \in 1..n |-> ConfigText]) \o [i \in 1..tail[file] |-> NL]

\* fs.readFile(path)
ReadFile(c, tail, f, path) ==
  IF path \in CfgFiles THEN File(ConfigFileData(c, tail, path)) ELSE f[path]

(* ------------------------------------------------------------------ *)
(* Initial states                                                       *)
(* ------------------------------------------------------------------ *)
\* contents an attributes file may have before the tool runs
InitContents ==
  { <<>>, <<PlainText, NL>>, <<PlainText>>, <<BlankText, NL>>,
    <<AssocText(OtherDriver), NL>> }
  \cup UNION { { <<PlainText, NL, AssocText(d), NL>>, <<AssocText(d), NL>> }
               : d \in Drivers }

\* how a scope is configured before the tool runs: nothing, a
\* core.attributesfile in the main file or in an included file, or a
\* driver registered by hand
ScopeSetups == {"unset", "main", "include", "manual"}

InitialConfig(setup, file, d) ==
  [k \in Keys |->
     CASE k = CoreAttributesfile /\ setup = "main" /\ file \in {LocalConfig, GlobalConfig}
            -> UserAttributesValue
       [] k = CoreAttributesfile /\ setup = "include" /\ file \in {LocalInclude, GlobalInclude}
            -> UserAttributesValue
       [] k = MergeKey(d, "name") /\ setup = "manual" /\ file \in {LocalConfig, GlobalConfig}
            -> DriverDescription
       [] k = MergeKey(d, "driver") /\ setup = "manual" /\ file \in {LocalConfig, GlobalConfig}
            -> DefaultCommand
       [] OTHER -> NoVal]

\* the setups of the local and the global scope: at most one scope is set up
SetupPairs ==
  {<<ls, gs>> \in ScopeSetups \X ScopeSetups : ls = "unset" \/ gs = "unset"}

\* the attributes paths the tool can reach in this environment
PathsInPlay(x, ls, gs) ==
  {IF ls \in {"main", "include"} THEN UserAttributes ELSE LocalAttributes}
  \cup {IF gs \in {"main", "include"} THEN UserAttributes
        ELSE IF x THEN XdgAttributes ELSE HomeAttributes}

InitConfigWorld ==
  /\ xdg \in BOOLEAN
  /\ \E sp \in SetupPairs, d \in Drivers :
       /\ cfg = [file \in CfgFiles |->
                   InitialConfig(IF file \in {LocalConfig, LocalInclude}
                                 THEN sp[1] ELSE sp[2], file, d)]
       /\ \/ fs = [p \in AttrPaths |-> Absent]
          \/ \E q \in PathsInPlay(xdg, sp[1], sp[2]), data \in InitContents :
               fs = [p \in AttrPaths |-> IF p = q THEN File(data) ELSE Absent]
  /\ cfgTail = [file \in CfgFiles |-> 0]
  /\ \E all \in BOOLEAN :
       dirs = {Home} \cup {Dirname(p) : p \in {q \in AttrPaths : fs[q].exists}}
              \cup (IF all THEN {Dirname(p) : p \in AttrPaths} ELSE {})
  /\ pc = "idle"
  /\ inst = NoInst
  /\ nops = 0
  /\ hist = <<>>

(* ------------------------------------------------------------------ *)
(* install                                                              *)
(* ------------------------------------------------------------------ *)
Record(op, d, local, flag, ok, ret, path, source, pre, wroteCreated, unlinked, written, git, setPath) ==
  [op |-> op, driverName |-> d, local |-> local, flag |-> flag, ok |-> ok,
   ret |-> ret, gitAttributesFilepath |-> path, source |-> source, pre |-> pre,
   wroteCreated |-> wroteCreated, unlinked |-> unlinked, written |-> written,
   git |-> git, setPath |-> setPath]

\* the install command handler up to install's Promise.all: the command
\* line is parsed, findGitAttributes has run and the three tasks start
InstallStarts(found, name, command, local, git, setPath) ==
  \* an answer other than "ok" is the answer to a call the command makes
  /\ git.confirm # "ok" => setPath
  /\ cfg' = found.cfg
  /\ IF found.ok
     THEN /\ pc' = "install"
          /\ inst' = [driverName |-> name, commandArg |-> command,
                      command |-> IF command = NoCommand THEN DefaultCommand ELSE command,
                      local |-> local,
                      gitAttributesFilepath |-> found.gitAttributesFilepath,
                      source |-> found.source,
                      tConfig |-> "name", tMkdir |-> "mkdir", tAttrs |-> "read",
                      attrContents |-> <<>>,
                      pre |-> fs[found.gitAttributesFilepath],
                      wroteCreated |->
                        found.cfg[MainFile(local)][MergeKey(name, "created")]
                          # cfg[MainFile(local)][MergeKey(name, "created")],
                      git |-> git, setPath |-> setPath]
          /\ hist' = hist
     ELSE /\ pc' = "idle"
          /\ inst' = NoInst
          /\ hist' = Append(hist, Record("install", name, local, local, FALSE,
                                         FALSE, "", "", Absent, FALSE, {}, {},
                                         git, setPath))

\* what install does with the answer of findGitAttributes
InstallLocated(found, name, command, local, git) ==
  InstallStarts(found, name, command, local, git,
                found.cfg[MainFile(local)][CoreAttributesfile]
                  # cfg[MainFile(local)][CoreAttributesfile])

InstallCommand(name, command, localOpt, git) ==
  /\ pc = "idle"
  /\ nops < MaxOps
  /\ InstallLocated(FindGitAttributes(cfg, name, FALSE, NoGitConfig, localOpt, xdg, git),
                    name, command, localOpt, git)
  /\ nops' = nops + 1
  /\ UNCHANGED <<cfgTail, fs, dirs, xdg, edVars, mVars>>

\* git config set <scope> merge.<name>.name
InstallSetName ==
  /\ pc = "install" /\ inst.tConfig = "name"
  /\ cfg' = ConfigSet(cfg, inst.local, MergeKey(inst.driverName, "name"), DriverDescription)
  /\ inst' = [inst EXCEPT !.tConfig = "driver"]
  /\ UNCHANGED <<cfgTail, fs, dirs, xdg, pc, nops, hist, edVars, mVars>>

\* a driver write that does not wait for the name write
InstallSetDriver_BeforeName ==
  /\ pc = "install" /\ inst.tConfig \in {"name", "driver"}
  /\ cfg' = ConfigSet(cfg, inst.local, MergeKey(inst.driverName, "driver"), inst.command)
  /\ inst' = [inst EXCEPT !.tConfig = IF inst.tConfig = "name" THEN "name" ELSE "done"]
  /\ UNCHANGED <<cfgTail, fs, dirs, xdg, pc, nops, hist, edVars, mVars>>

\* a driver write that ignores the command it was given
InstallSetDriver_DefaultOnly ==
  /\ pc = "install" /\ inst.tConfig = "driver"
  /\ cfg' = ConfigSet(cfg, inst.local, MergeKey(inst.driverName, "driver"), DefaultCommand)
  /\ inst' = [inst EXCEPT !.tConfig = "done"]
  /\ UNCHANGED <<cfgTail, fs, dirs, xdg, pc, nops, hist, edVars, mVars>>

\* git config set <scope> merge.<name>.driver
InstallSetDriver ==
  /\ pc = "install" /\ inst.tConfig = "driver"
  /\ cfg' = ConfigSet(cfg, inst.local, MergeKey(inst.driverName, "driver"), inst.command)
  /\ inst' = [inst EXCEPT !.tConfig = "done"]
  /\ UNCHANGED <<cfgTail, fs, dirs, xdg, pc, nops, hist, edVars, mVars>>

\* fs.mkdir(gitAttributesDir, {recursive: true})
InstallMkdir ==
  /\ pc = "install" /\ inst.tMkdir = "mkdir"
  /\ dirs' = dirs \cup {Dirname(inst.gitAttributesFilepath)}
  /\ inst' = [inst EXCEPT !.tMkdir = "done"]
  /\ UNCHANGED <<cfg, cfgTail, fs, xdg, pc, nops, hist, edVars, mVars>>

\* updateGitAttributes up to its writeFile: the file is read and the new
\* content computed
InstallReadAttributes ==
  /\ pc = "install" /\ inst.tAttrs = "read"
  /\ inst' = [inst EXCEPT !.tAttrs = "write",
                          !.attrContents =
                             UpdateGitAttributes(fs[inst.gitAttributesFilepath],
                                                 inst.driverName)]
  /\ UNCHANGED <<cfg, cfgTail, fs, dirs, xdg, pc, nops, hist, edVars, mVars>>

\* fs.writeFile(filepath, attrContents): ENOENT when the directory is missing
InstallWriteAttributes ==
  /\ pc = "install" /\ inst.tAttrs = "write"
  /\ IF Dirname(inst.gitAttributesFilepath) \in dirs
     THEN /\ fs' = [fs EXCEPT ![inst.gitAttributesFilepath] = File(inst.attrContents)]
          /\ inst' = [inst EXCEPT !.tAttrs = "done"]
     ELSE /\ fs' = fs
          /\ inst' = [inst EXCEPT !.tAttrs = "failed"]
  /\ UNCHANGED <<cfg, cfgTail, dirs, xdg, pc, nops, hist, edVars, mVars>>

\* Promise.all settles: fulfilled when the three tasks are done, rejected
\* as soon as the attributes task has failed
InstallSettle ==
  /\ pc = "install"
  /\ \/ inst.tAttrs = "failed"
     \/ inst.tConfig = "done" /\ inst.tMkdir = "done" /\ inst.tAttrs = "done"
  /\ hist' = Append(hist, Record("install", inst.driverName, inst.local, inst.local,
                                 inst.tAttrs = "done", FALSE,
                                 inst.gitAttributesFilepath, inst.source, inst.pre,
                                 inst.wroteCreated, {}, {}, inst.git, inst.setPath))
  /\ pc' = "idle"
  /\ inst' = NoInst
  /\ UNCHANGED <<cfg, cfgTail, fs, dirs, xdg, nops, edVars, mVars>>

(* ------------------------------------------------------------------ *)
(* uninstall                                                            *)
(* ------------------------------------------------------------------ *)
\* uninstall(driverName, local): the configuration, files and result it
\* leaves
Uninstall(c, tail, f, driverName, local, xdgSet, git) ==
  LET listed == ReadGitConfig(c, local, git)
      found == FindInstalled(c, driverName, local)
      thrown == git.remove # "ok" /\ ~IsNoSuchSection(git.remove)
      didRemove == /\ git.remove = "ok"
                   /\ \E k \in MergeKeys(driverName) : c[found.driverSource][k] # NoVal
      c1 == IF git.remove = "ok" THEN RemoveSection(c, found.driverSource, driverName)
            ELSE c
      fromCreated == found.gitAttributesFilepath # ""
      located == IF fromCreated
                 THEN [ok |-> TRUE, cfg |-> c1,
                       gitAttributesFilepath |-> found.gitAttributesFilepath,
                       source |-> ""]
                 ELSE FindGitAttributes(c1, driverName, TRUE, found.gitConfig,
                                        local, xdgSet, git)
      path == located.gitAttributesFilepath
      c2 == located.cfg
      file == ReadFile(c2, tail, f, path)
      newAttrs == RemoveAssociation(file.data, driverName)
      delete == ShouldDeleteAttrs(fromCreated, newAttrs)
      unchanged == [ok |-> TRUE, ret |-> FALSE, cfg |-> c, cfgTail |-> tail, fs |-> f,
                    path |-> "", pre |-> Absent, unlinked |-> {}, written |-> {}]
  IN IF ~listed.ok THEN [unchanged EXCEPT !.ok = FALSE]
     ELSE IF found.driverSource = "" THEN unchanged
     ELSE IF thrown THEN [unchanged EXCEPT !.ok = FALSE]
     ELSE IF ~located.ok
     THEN [unchanged EXCEPT !.ok = FALSE, !.cfg = c2]
     ELSE IF ~file.exists
     THEN [unchanged EXCEPT !.ret = didRemove, !.cfg = c2, !.path = path]
     ELSE IF delete
     THEN [ok |-> TRUE, ret |-> TRUE,
           cfg |-> IF path \in CfgFiles THEN [c2 EXCEPT ![path] = EmptyConfig] ELSE c2,
           cfgTail |-> IF path \in CfgFiles THEN [tail EXCEPT ![path] = 0] ELSE tail,
           fs |-> IF path \in CfgFiles THEN f ELSE [f EXCEPT ![path] = Absent],
           path |-> path, pre |-> file, unlinked |-> {path}, written |-> {}]
     ELSE [ok |-> TRUE, ret |-> TRUE,
           cfg |-> c2,
           cfgTail |-> IF path \in CfgFiles
                       THEN [tail EXCEPT ![path] =
                               Len(newAttrs)
                               - 2 * Cardinality({k \in Keys : c2[path][k] # NoVal})]
                       ELSE tail,
           fs |-> IF path \in CfgFiles THEN f ELSE [f EXCEPT ![path] = File(newAttrs)],
           path |-> path, pre |-> file, unlinked |-> {}, written |-> {path}]

\* the uninstall command handler: uninstall(name, globalFlag)
UninstallEnds(r, name, globalFlag, git, setPath) ==
  \* an answer other than "ok" is the answer to a call the command makes
  /\ git.confirm # "ok" => setPath
  /\ git.remove # "ok" => FindInstalled(cfg, name, globalFlag).driverSource # ""
  /\ cfg' = r.cfg
  /\ cfgTail' = r.cfgTail
  /\ fs' = r.fs
  /\ hist' = Append(hist, Record("uninstall", name, globalFlag, globalFlag, r.ok,
                                 r.ret, r.path, "", r.pre, FALSE,
                                 r.unlinked, r.written, git, setPath))

\* what the handler does with the outcome of uninstall
UninstallReturns(r, name, globalFlag, git) ==
  UninstallEnds(r, name, globalFlag, git,
                \E file \in CfgFiles :
                  r.cfg[file][CoreAttributesfile] # cfg[file][CoreAttributesfile])

UninstallCommand(name, globalFlag, git) ==
  /\ pc = "idle"
  /\ nops < MaxOps
  /\ UninstallReturns(Uninstall(cfg, cfgTail, fs, name, globalFlag, xdg, git),
                      name, globalFlag, git)
  /\ nops' = nops + 1
  /\ UNCHANGED <<dirs, xdg, pc, inst, edVars, mVars>>

(* ------------------------------------------------------------------ *)
(* VersionGate                                                          *)
(* ------------------------------------------------------------------ *)
DigitChars == {"0", "1", "2", "3", "4", "5", "6", "7", "8", "9"}
DigitValue(c) ==
  CASE c = "0" -> 0 [] c = "1" -> 1 [] c = "2" -> 2 [] c = "3" -> 3 [] c = "4" -> 4
    [] c = "5" -> 5 [] c = "6" -> 6 [] c = "7" -> 7 [] c = "8" -> 8 [] c = "9" -> 9
Whitespace == {" ", "\n"}

RECURSIVE TrimLeft(_)
TrimLeft(str) ==
  IF str # <<>> /\ str[1] \in Whitespace THEN TrimLeft(Tail(str)) ELSE str
RECURSIVE TrimRight(_)
TrimRight(str) ==
  IF str # <<>> /\ str[Len(str)] \in Whitespace
  THEN TrimRight(SubSeq(str, 1, Len(str) - 1)) ELSE str
\* String.prototype.trim on a string of characters
Trim(str) == TrimRight(TrimLeft(str))

\* version.split('.')[0]
RECURSIVE FirstPart(_)
FirstPart(str) ==
  IF str = <<>> \/ str[1] = "." THEN <<>> ELSE <<str[1]>> \o FirstPart(Tail(str))

RECURSIVE ParseDigits(_, _, _)
ParseDigits(str, acc, any) ==
  IF str # <<>> /\ str[1] \in DigitChars
  THEN ParseDigits(Tail(str), acc * 10 + DigitValue(str[1]), TRUE)
  ELSE [nan |-> ~any, n |-> acc]

\* parseInt(part, 10): blanks, a sign, then the leading digits; NaN without
\* a digit
ParseInt(str) ==
  LET t == TrimLeft(str)
      signed == t # <<>> /\ t[1] \in {"+", "-"}
      r == ParseDigits(IF signed THEN Tail(t) ELSE t, 0, FALSE)
  IN IF signed /\ t[1] = "-" THEN [nan |-> r.nan, n |-> 0 - r.n] ELSE r

\* isNpmV7OrGreater with the minimum one major version lower
IsNpmV7OrGreater_AcceptsSix(answer) ==
  IF answer.failed THEN FALSE
  ELSE LET majorVersion == ParseInt(FirstPart(Trim(answer.stdout)))
       IN ~majorVersion.nan /\ majorVersion.n >= 6

\* isNpmV7OrGreater, from what exec('npm --version') answers
IsNpmV7OrGreater(answer) ==
  IF answer.failed THEN FALSE
  ELSE LET version == Trim(answer.stdout)
           majorVersion == ParseInt(FirstPart(version))
       IN ~majorVersion.nan /\ majorVersion.n >= 7

Answer(stdout) == [failed |-> FALSE, stdout |-> stdout]
\* what `npm --version` may answer: 6.9.9, 7.0.0, 10.8.2, abc, or an error
NpmAnswers ==
  { Answer(<<"6", ".", "9", ".", "9", "\n">>),
    Answer(<<"7", ".", "0", ".", "0", "\n">>),
    Answer(<<"1", "0", ".", "8", ".", "2", "\n">>),
    Answer(<<"a", "b", "c", "\n">>),
    [failed |-> TRUE, stdout |-> <<>>] }

(* ------------------------------------------------------------------ *)
(* WorkspaceInspector                                                   *)
(* ------------------------------------------------------------------ *)
\* the text of a manifest, as tokens; blanks between tokens are left out
Str(v) == [t |-> "string", v |-> v]
Punct(v) == [t |-> "punct", v |-> v]
ConflictMarker == [t |-> "marker", v |-> "<<<<<<<"]

NoManifest == [exists |-> FALSE, text |-> <<>>]
Manifest(text) == [exists |-> TRUE, text |-> text]

\* an extraction that takes every quoted string of the text
GetWorkspaces_EveryString(file) ==
  LET strings == SelectSeq(file.text, LAMBDA tok : tok.t = "string")
  IN [k \in 1..Len(strings) |-> strings[k].v]

\* getWorkspaces: the quoted strings between the brackets of the first
\* `"workspaces" : [ ... ]` of the text
GetWorkspaces(file) ==
  IF ~file.exists THEN <<>>
  ELSE LET text == file.text
           closes(i) == {j \in (i + 3)..Len(text) : text[j] = Punct("]")}
           starts == {i \in 1..(Len(text) - 3) :
                        /\ text[i] = Str("workspaces")
                        /\ text[i + 1] = Punct(":")
                        /\ text[i + 2] = Punct("[")
                        /\ closes(i) # {}}
       IN IF starts = {} THEN <<>>
          ELSE LET i == CHOOSE x \in starts : \A y \in starts : x <= y
                   j == CHOOSE x \in closes(i) : \A y \in closes(i) : x <= y
                   arrayContent == SubSeq(text, i + 3, j - 1)
                   workspaceMatches ==
                     SelectSeq(arrayContent, LAMBDA tok : tok.t = "string")
               IN [k \in 1..Len(workspaceMatches) |-> workspaceMatches[k].v]

SeparatorMarker == [t |-> "marker", v |-> "======="]
EndMarker == [t |-> "marker", v |-> ">>>>>>>"]

\* a manifest without a workspaces property
PlainManifest ==
  Manifest(<<Punct("{"), Str("name"), Punct(":"), Str("repo"), Punct("}")>>)

\* "version": "1" on one side of a conflict and "version": "2" on the other
ConflictedProperties ==
  <<ConflictMarker, Str("version"), Punct(":"), Str("1"), Punct(","),
    SeparatorMarker, Str("version"), Punct(":"), Str("2"), Punct(","), EndMarker>>

\* "g1", "g2", ...
RECURSIVE ArrayContent(_)
ArrayContent(globs) ==
  IF globs = <<>> THEN <<>>
  ELSE IF Len(globs) = 1 THEN <<Str(globs[1])>>
  ELSE <<Str(globs[1]), Punct(",")>> \o ArrayContent(Tail(globs))

\* a manifest whose workspaces array lists the globs, after a conflict over
\* another property or after a property without conflict
WorkspacesManifest(conflicted, globs) ==
  Manifest(<<Punct("{")>>
           \o (IF conflicted THEN ConflictedProperties
               ELSE <<Str("name"), Punct(":"), Str("repo"), Punct(",")>>)
           \o <<Str("workspaces"), Punct(":"), Punct("[")>>
           \o ArrayContent(globs)
           \o <<Punct("]"), Punct("}")>>)

GlobLists == {<<>>, <<"packages/*">>, <<"b", "a">>}

Manifests ==
  {NoManifest, PlainManifest}
  \cup {WorkspacesManifest(conflicted, globs) :
          conflicted \in BOOLEAN, globs \in GlobLists}

(* ------------------------------------------------------------------ *)
(* The merge command and MergeEngine                                    *)
(* ------------------------------------------------------------------ *)
\* directories between the filesystem root (0) and the working directory
Depth == 1
Levels == 0..Depth
Cwd == Depth

\* a parent that is the directory itself
ParentDir_Self(dir) == dir

\* path.resolve(currentDir, '..')
ParentDir(dir) == IF dir = 0 THEN 0 ELSE dir - 1

NotFound == 0 - 1
\* findLockfile(startPath): the directory whose package-lock.json is found,
\* or NotFound when the loop throws at the filesystem root
RECURSIVE FindLockfile(_, _)
FindLockfile(lk, currentDir) ==
  IF lk[currentDir] # "none" THEN currentDir
  ELSE IF ParentDir(currentDir) = currentDir THEN NotFound
  ELSE FindLockfile(lk, ParentDir(currentDir))

RootGlob == "."
\* path.join(workspaceRoot, glob, 'node_modules')
NodeModules(workspaceRoot, glob) == [dir |-> workspaceRoot, glob |-> glob]

\* what `git merge-file -p` leaves in ret.stdout: a clean merge, a merge
\* with conflict markers, nothing, or null when git could not be run
MergeFileOutputs == {"merged", "conflicted", "empty", "null"}

NoFilepath == 0 - 1

NoMerge == [gate |-> FALSE, invoked |-> FALSE, filepath |-> NoFilepath,
            workspaceRoot |-> 0, stdout |-> "null",
            tWrite |-> "idle", tWorkspaces |-> "idle", workspaces |-> <<>>,
            trash |-> <<>>, ran |-> FALSE, cwd |-> 0,
            installOk |-> FALSE, lsOk |-> FALSE,
            returned |-> FALSE, result |-> FALSE, thrown |-> FALSE,
            commands |-> <<>>, currentDir |-> 0]

\* the command lines merge executes
MergeFileCommandLine == "git merge-file -p"
\* a resolution that leaves node_modules alone
FullInstallCommandLine_LockOnly == "npm install --package-lock-only && npm ls"
FullInstallCommandLine == "npm install && npm ls"

\* a command that stops after `npm install`
FullInstallCommand_InstallOnly(installOk, lsOk) == installOk

\* the lockfile a successful `npm install` leaves: a lockfile that parses
\* is kept or regenerated, any other is regenerated
NpmInstall(kind, regenerates) ==
  IF kind \in {"ours", "merged"} /\ ~regenerates THEN kind ELSE "resolved"

\* an await that does not wait for the trash calls
AllTrashed_NoAwait(tasks) == TRUE

\* await Promise.all of the trash calls is over: every call has ended and
\* none has rejected
AllTrashed(tasks) ==
  \A d \in DOMAIN tasks : tasks[d] \in {"moved", "caught"}

\* the exit status of `npm install && npm ls`
FullInstallCommand(installOk, lsOk) == installOk /\ lsOk

\* merge(ours, base, theirs, filepath) up to its first Promise.all: the
\* root is resolved and git merge-file has run
MergeInvoked(filepath, stdout) ==
  [m EXCEPT !.gate = TRUE, !.invoked = TRUE,
            !.filepath = filepath, !.workspaceRoot = filepath,
            !.stdout = stdout,
            !.commands = <<MergeFileCommandLine>>,
            !.tWrite = "pending", !.tWorkspaces = "pending"]

\* the merge command handler: arguments, version gate, and then either the
\* start of the lockfile search or, with a file path given, merge
MergeCommand(argsOk, filepathArg, stdout) ==
  /\ mpc = "idle"
  /\ IF ~argsOk
     THEN /\ m' = [m EXCEPT !.thrown = TRUE]
          /\ mpc' = "rejected"
          /\ exitCode' = exitCode
     ELSE IF ~IsNpmV7OrGreater(npm)
     THEN /\ m' = m
          /\ mpc' = "done"
          /\ exitCode' = 1
     ELSE IF filepathArg = NoFilepath
     THEN /\ m' = [m EXCEPT !.gate = TRUE, !.currentDir = Cwd]
          /\ mpc' = "search"
          /\ exitCode' = exitCode
     ELSE /\ m' = MergeInvoked(filepathArg, stdout)
          /\ mpc' = "write"
          /\ exitCode' = exitCode
  /\ UNCHANGED <<npm, lock, manifest, nm, trashed, cfgVars, edVars>>

\* one round of findLockfile's loop, fs.access on the current directory:
\* the file is found, the loop throws at the filesystem root and the
\* handler falls back to ./package-lock.json, or the loop moves up
MergeFindLockfile(stdout) ==
  /\ mpc = "search"
  /\ IF lock[m.currentDir] # "none"
     THEN /\ m' = MergeInvoked(m.currentDir, stdout)
          /\ mpc' = "write"
     ELSE IF ParentDir(m.currentDir) = m.currentDir
     THEN /\ m' = MergeInvoked(Cwd, stdout)
          /\ mpc' = "write"
     ELSE /\ m' = [m EXCEPT !.currentDir = ParentDir(m.currentDir)]
          /\ mpc' = "search"
  /\ UNCHANGED <<npm, lock, manifest, nm, trashed, exitCode, cfgVars, edVars>>

\* a write that ends without putting the output in the file
MergeWriteFile_NoWrite ==
  /\ mpc = "write" /\ m.tWrite = "pending"
  /\ lock' = lock
  /\ m' = [m EXCEPT !.tWrite = IF m.stdout = "null" THEN "failed" ELSE "done"]
  /\ UNCHANGED <<npm, manifest, nm, trashed, mpc, exitCode, cfgVars, edVars>>

\* fs.writeFile(filepath, ret.stdout)
MergeWriteFile ==
  /\ mpc = "write" /\ m.tWrite = "pending"
  /\ IF m.stdout = "null"
     THEN /\ lock' = lock
          /\ m' = [m EXCEPT !.tWrite = "failed"]
     ELSE /\ lock' = [lock EXCEPT ![m.filepath] = m.stdout]
          /\ m' = [m EXCEPT !.tWrite = "done"]
  /\ UNCHANGED <<npm, manifest, nm, trashed, mpc, exitCode, cfgVars, edVars>>

\* getWorkspaces(path.join(workspaceRoot, 'package.json'))
MergeGetWorkspaces ==
  /\ mpc = "write" /\ m.tWorkspaces = "pending"
  /\ m' = [m EXCEPT !.tWorkspaces = "done", !.workspaces = GetWorkspaces(manifest)]
  /\ UNCHANGED <<npm, lock, manifest, nm, trashed, mpc, exitCode, cfgVars, edVars>>

\* trash calls for the workspaces only
TrashTargets_WorkspacesOnly(workspaceRoot, workspaces) ==
  {NodeModules(workspaceRoot, workspaces[k]) : k \in 1..Len(workspaces)}

\* the directories merge hands to trash
TrashTargets(workspaceRoot, workspaces) ==
  {NodeModules(workspaceRoot, RootGlob)}
  \cup {NodeModules(workspaceRoot, workspaces[k]) : k \in 1..Len(workspaces)}

\* a start of the trash calls that waits for getWorkspaces only
MergeStartTrash_NoWait ==
  /\ mpc = "write" /\ m.tWrite # "failed" /\ m.tWorkspaces = "done"
  /\ m' = [m EXCEPT !.trash = [d \in TrashTargets(m.workspaceRoot, m.workspaces)
                                 |-> "pending"]]
  /\ mpc' = "trash"
  /\ UNCHANGED <<npm, lock, manifest, nm, trashed, exitCode, cfgVars, edVars>>

\* after the first Promise.all: the node_modules paths are computed and a
\* trash call is started for each
MergeStartTrash ==
  /\ mpc = "write" /\ m.tWrite = "done" /\ m.tWorkspaces = "done"
  /\ m' = [m EXCEPT !.trash = [d \in TrashTargets(m.workspaceRoot, m.workspaces)
                                 |-> "pending"]]
  /\ mpc' = "trash"
  /\ UNCHANGED <<npm, lock, manifest, nm, trashed, exitCode, cfgVars, edVars>>

\* trash(workspaceRootNodeModules) ends: a failure is caught
MergeTrashRoot(ok) ==
  /\ mpc = "trash"
  /\ LET d == NodeModules(m.workspaceRoot, RootGlob)
     IN /\ m.trash[d] = "pending"
        /\ m' = [m EXCEPT !.trash[d] = IF ok THEN "moved" ELSE "caught"]
        /\ nm' = IF ok THEN nm \ {d} ELSE nm
        /\ trashed' = IF ok /\ d \in nm THEN trashed \cup {d} ELSE trashed
  /\ UNCHANGED <<npm, lock, manifest, mpc, exitCode, cfgVars, edVars>>

\* trash(dir) of a workspace ends: a failure rejects the Promise.all
MergeTrashWorkspace(d, ok) ==
  /\ mpc = "trash"
  /\ d \in DOMAIN m.trash
  /\ d # NodeModules(m.workspaceRoot, RootGlob)
  /\ m.trash[d] = "pending"
  /\ m' = [m EXCEPT !.trash[d] = IF ok THEN "moved" ELSE "failed"]
  /\ nm' = IF ok THEN nm \ {d} ELSE nm
  /\ trashed' = IF ok /\ d \in nm THEN trashed \cup {d} ELSE trashed
  /\ UNCHANGED <<npm, lock, manifest, mpc, exitCode, cfgVars, edVars>>

\* exec('npm install && npm ls', {cwd: workspaceRoot}) and merge's return
MergeRunInstall(installOk, lsOk, regenerates) ==
  /\ mpc = "trash"
  /\ AllTrashed(m.trash)
  /\ m' = [m EXCEPT !.ran = TRUE, !.cwd = m.workspaceRoot,
                    !.installOk = installOk, !.lsOk = installOk /\ lsOk,
                    !.returned = TRUE,
                    !.commands = Append(m.commands, FullInstallCommandLine),
                    !.result = FullInstallCommand(installOk, lsOk)]
  /\ lock' = IF installOk
             THEN [lock EXCEPT ![m.workspaceRoot] =
                                 NpmInstall(lock[m.workspaceRoot], regenerates)]
             ELSE lock
  /\ nm' = IF installOk THEN nm \cup DOMAIN m.trash ELSE nm
  /\ mpc' = "returned"
  /\ UNCHANGED <<npm, manifest, trashed, exitCode, cfgVars, edVars>>

\* a Promise.all of merge rejects: merge throws
MergeThrow ==
  /\ \/ mpc = "write" /\ m.tWrite = "failed"
     \/ mpc = "trash" /\ \E d \in DOMAIN m.trash : m.trash[d] = "failed"
  /\ m' = [m EXCEPT !.thrown = TRUE]
  /\ mpc' = "rejected"
  /\ UNCHANGED <<npm, lock, manifest, nm, trashed, exitCode, cfgVars, edVars>>

\* the handler reports merge's result, or the rejection ends the process
MergeReport ==
  /\ mpc \in {"returned", "rejected"}
  /\ exitCode' = IF mpc = "returned" /\ m.result THEN exitCode ELSE 1
  /\ mpc' = "done"
  /\ UNCHANGED <<npm, lock, manifest, nm, trashed, m, cfgVars, edVars>>

MergeIdle ==
  /\ npm = [failed |-> TRUE, stdout |-> <<>>]
  /\ lock = [l \in Levels |-> "none"]
  /\ manifest = NoManifest
  /\ nm = {}
  /\ trashed = {}
  /\ mpc = "idle"
  /\ m = NoMerge
  /\ exitCode = 0

\* every node_modules directory the manifest can name
AllNodeModules(file) ==
  UNION {TrashTargets(l, GetWorkspaces(file)) : l \in Levels}

InitMerge ==
  /\ npm \in NpmAnswers
  /\ lock \in [Levels -> {"none", "ours"}]
  /\ manifest \in Manifests
  /\ nm \in {{}, AllNodeModules(manifest)}
  /\ trashed = {}
  /\ mpc = "idle"
  /\ m = NoMerge
  /\ exitCode = 0

NextMerge ==
  \/ \E argsOk \in BOOLEAN, filepathArg \in Levels \cup {NoFilepath},
        stdout \in MergeFileOutputs :
       MergeCommand(argsOk, filepathArg, stdout)
  \/ \E stdout \in MergeFileOutputs : MergeFindLockfile(stdout)
  \/ MergeWriteFile
  \/ MergeGetWorkspaces
  \/ MergeStartTrash
  \/ \E ok \in BOOLEAN : MergeTrashRoot(ok)
  \/ \E d \in DOMAIN m.trash, ok \in BOOLEAN : MergeTrashWorkspace(d, ok)
  \/ \E installOk \in BOOLEAN, lsOk \in BOOLEAN, regenerates \in BOOLEAN :
       MergeRunInstall(installOk, lsOk, regenerates)
  \/ MergeThrow
  \/ MergeReport

(* ------------------------------------------------------------------ *)
(* AttributesEditor on its own                                          *)
(* ------------------------------------------------------------------ *)
\* edits applied to one file in a behaviour of SpecAttr
MaxEdits == 2

Chunks == {NL, PlainText, BlankText, AssocText(OtherDriver), UnsetMergeText}
          \cup {AssocText(d) : d \in Drivers}
          \cup {AssocMoreText(d) : d \in Drivers}

\* the texts of at most MaxLen chunks in which a line holds one piece of text
Contents ==
  {s \in UNION {[1..n -> Chunks] : n \in 0..MaxLen} :
     \A i \in 1..(Len(s) - 1) : s[i] = NL \/ s[i + 1] = NL}

EditorIdle == edFile = Absent /\ edLog = <<>>

ConfigIdle ==
  /\ cfg = [file \in CfgFiles |-> EmptyConfig]
  /\ cfgTail = [file \in CfgFiles |-> 0]
  /\ fs = [p \in AttrPaths |-> Absent]
  /\ dirs = {Home}
  /\ xdg = FALSE
  /\ pc = "idle"
  /\ inst = NoInst
  /\ nops = 0
  /\ hist = <<>>

Edit(op, d, before, after) ==
  [op |-> op, driverName |-> d, before |-> before, after |-> after]

\* updateGitAttributes(filepath, driverName) on the file
EditorAdd(driverName) ==
  /\ Len(edLog) < MaxEdits
  /\ edFile' = File(UpdateGitAttributes(edFile, driverName))
  /\ edLog' = Append(edLog, Edit("add", driverName, edFile, edFile'))
  /\ UNCHANGED <<cfgVars, mVars>>

\* the attributes-file part of uninstall (lib.ts 473-513) on the file, with
\* or without a created entry naming it
EditorRemove(driverName, fromCreated) ==
  /\ Len(edLog) < MaxEdits
  /\ edFile.exists
  /\ LET newAttrs == RemoveAssociation(edFile.data, driverName)
     IN edFile' = IF ShouldDeleteAttrs(fromCreated, newAttrs)
                  THEN Absent ELSE File(newAttrs)
  /\ edLog' = Append(edLog, Edit("remove", driverName, edFile, edFile'))
  /\ UNCHANGED <<cfgVars, mVars>>

InitAttr ==
  /\ ConfigIdle
  /\ MergeIdle
  /\ edFile \in {Absent} \cup {File(data) : data \in Contents}
  /\ edLog = <<>>

NextAttr ==
  \/ \E d \in Drivers : EditorAdd(d)
  \/ \E d \in Drivers, fromCreated \in BOOLEAN : EditorRemove(d, fromCreated)

Init == InitConfigWorld /\ EditorIdle /\ MergeIdle

Next ==
  \/ \E name \in Drivers, command \in {NoCommand, CustomCommand}, localOpt \in BOOLEAN,
          git \in {GitOk} :
       InstallCommand(name, command, localOpt, git)
  \/ InstallSetName
  \/ InstallSetDriver
  \/ InstallMkdir
  \/ InstallReadAttributes
  \/ InstallWriteAttributes
  \/ InstallSettle
  \/ \E name \in Drivers, globalFlag \in BOOLEAN, git \in {GitOk} :
       UninstallCommand(name, globalFlag, git)

vars == <<cfgVars, edVars, mVars>>

Spec == Init /\ [][Next]_vars

\* the same commands when git may fail one of its calls
NextFaults ==
  \/ \E name \in Drivers, command \in {NoCommand, CustomCommand}, localOpt \in BOOLEAN,
          git \in InstallOutcomes :
       InstallCommand(name, command, localOpt, git)
  \/ InstallSetName
  \/ InstallSetDriver
  \/ InstallMkdir
  \/ InstallReadAttributes
  \/ InstallWriteAttributes
  \/ InstallSettle
  \/ \E name \in Drivers, globalFlag \in BOOLEAN, git \in UninstallOutcomes :
       UninstallCommand(name, globalFlag, git)

SpecFaults == Init /\ [][NextFaults]_vars

SpecAttr == InitAttr /\ [][NextAttr]_vars

\* the longest output of `npm --version` tried beyond the usual ones
MaxVersionLen == 3
VersionChars == {"6", "7", "1", ".", "a", "-", "\n"}
ShortAnswers ==
  {Answer(str) : str \in UNION {[1..n -> VersionChars] : n \in 0..MaxVersionLen}}

\* VersionGate on its own: isNpmV7OrGreater is called once and its result
\* kept in m.gate
CheckVersion ==
  /\ mpc = "idle"
  /\ m' = [m EXCEPT !.gate = IsNpmV7OrGreater(npm)]
  /\ mpc' = "checked"
  /\ UNCHANGED <<npm, lock, manifest, nm, trashed, exitCode, cfgVars, edVars>>

InitGate ==
  /\ ConfigIdle
  /\ EditorIdle
  /\ npm \in NpmAnswers \cup ShortAnswers
  /\ lock = [l \in Levels |-> "none"]
  /\ manifest = NoManifest
  /\ nm = {}
  /\ trashed = {}
  /\ mpc = "idle"
  /\ m = NoMerge
  /\ exitCode = 0

NextGate == CheckVersion

SpecGate == InitGate /\ [][NextGate]_vars

InitMergeWorld ==
  /\ ConfigIdle
  /\ EditorIdle
  /\ InitMerge

SpecMerge == InitMergeWorld /\ [][NextMerge]_vars

\* fs.access settles, so a started round of the lockfile search ends
SpecMergeLive ==
  InitMergeWorld /\ [][NextMerge]_vars
    /\ WF_vars(\E stdout \in MergeFileOutputs : MergeFindLockfile(stdout))

(* ------------------------------------------------------------------ *)
(* Properties of install and uninstall                                  *)
(* ------------------------------------------------------------------ *)
Last == hist[Len(hist)]
Prev == hist[Len(hist) - 1]

\* the lines of a text: the pieces between newlines, the empty piece after
\* a final newline not being a line
Lines(data) ==
  LET ls == Split(data)
  IN IF ls[Len(ls)] = EmptyLine THEN SubSeq(ls, 1, Len(ls) - 1) ELSE ls

\* the file has a line `package-lock.json merge=<d>`
HasAssociation(file, d) ==
  file.exists /\ \E i \in 1..Len(Lines(file.data)) : Lines(file.data)[i] = AssocText(d)

\* the file has a line that sets no merge attribute and is not blank
HasUnrelatedContent(file) ==
  file.exists /\ \E i \in 1..Len(file.data) : file.data[i] = PlainText

\* the last two commands were a successful install and then a successful
\* uninstall with the same driver name and scope
InstalledThenUninstalled ==
  /\ pc = "idle"
  /\ Len(hist) >= 2
  /\ Prev.op = "install" /\ Prev.ok
  /\ Last.op = "uninstall" /\ Last.ok
  /\ Last.driverName = Prev.driverName
  /\ Last.local = Prev.local

\* C1: after a successful install followed by a successful uninstall with
\* the same driver name and scope, the configuration of that scope has no
\* merge.<name>.* key and the attributes file install wrote is absent or has
\* no line `package-lock.json merge=<name>`.
C1_RoundTripRemovesDriver ==
  InstalledThenUninstalled =>
    /\ \A k \in MergeKeys(Last.driverName) :
         GetGitConfigWithOrigins(cfg, Last.local)[k] = NoEntry
    /\ ~HasAssociation(fs[Prev.gitAttributesFilepath], Last.driverName)

\* C2: if install created the attributes file and recorded provenance for
\* it, and removing the association line leaves it blank, uninstall deletes
\* the file.
C2_UninstallDeletesCreatedFile ==
  ( /\ InstalledThenUninstalled
    /\ ~Prev.pre.exists
    /\ Prev.wroteCreated
    /\ IsBlankString(RemoveAssociation(UpdateGitAttributes(Prev.pre, Prev.driverName),
                                       Prev.driverName)) )
  => ~fs[Prev.gitAttributesFilepath].exists

\* C3: if the attributes file existed with unrelated content before install,
\* the file still exists after the install and a following uninstall of that
\* driver.
C3_UninstallKeepsUserFile ==
  ( /\ pc = "idle"
    /\ Len(hist) >= 2
    /\ Prev.op = "install" /\ Prev.ok
    /\ Last.op = "uninstall"
    /\ Last.driverName = Prev.driverName
    /\ HasUnrelatedContent(Prev.pre) )
  => fs[Prev.gitAttributesFilepath].exists

\* a user file went through install and through an uninstall that rewrote it
C3_Witness ==
  /\ InstalledThenUninstalled
  /\ HasUnrelatedContent(Prev.pre)
  /\ Last.ret
  /\ Last.written = {Prev.gitAttributesFilepath}
  /\ fs[Prev.gitAttributesFilepath].exists

\* C4: merge.<name>.created is written only by an install that found no
\* attributes file on disk: never when the file existed before the install.
C4_CreatedOnlyForCreatedFile ==
  /\ pc = "install" => (inst.wroteCreated => ~inst.pre.exists)
  /\ \A i \in 1..Len(hist) :
       (hist[i].op = "install" /\ hist[i].wroteCreated) => ~hist[i].pre.exists

\* C7: install with default options followed by uninstall with default
\* options removes the driver from the global configuration, and the
\* default uninstall acts on the global scope.
C7_DefaultUninstallIsGlobal ==
  ( /\ pc = "idle"
    /\ Len(hist) >= 2
    /\ Prev.op = "install" /\ Prev.ok /\ Prev.flag = FALSE
    /\ Last.op = "uninstall" /\ Last.ok /\ Last.flag = TRUE
    /\ Last.driverName = Prev.driverName )
  => /\ Last.local = FALSE
     /\ GetGitConfigWithOrigins(cfg, FALSE)[MergeKey(Last.driverName, "driver")] = NoEntry

(* ------------------------------------------------------------------ *)
(* Properties of the AttributesEditor                                   *)
(* ------------------------------------------------------------------ *)
\* the number of lines `package-lock.json merge=<d>` in the file
CountAssociations(file, d) ==
  Cardinality({i \in 1..Len(Lines(file.data)) : Lines(file.data)[i] = AssocText(d)})

\* C5: adding the association twice with the same driver name leaves exactly
\* one line `package-lock.json merge=<name>` in the file.
C5_AddAssociationIdempotent ==
  \A i \in 1..(Len(edLog) - 1) :
    ( /\ edLog[i].op = "add" /\ edLog[i + 1].op = "add"
      /\ edLog[i].driverName = edLog[i + 1].driverName )
    => /\ edLog[i + 1].after.exists
       /\ CountAssociations(edLog[i + 1].after, edLog[i].driverName) = 1

\* the association was added twice to a file that already had the line and
\* another line of the user
C5_Witness ==
  /\ Len(edLog) = 2
  /\ edLog[1].op = "add" /\ edLog[2].op = "add"
  /\ edLog[1].driverName = edLog[2].driverName
  /\ HasAssociation(edLog[1].before, edLog[1].driverName)
  /\ HasUnrelatedContent(edLog[1].before)
  /\ CountAssociations(edFile, edLog[1].driverName) = 1

\* C6: after the association is added to an existing file, the file holds
\* the lines it had that are not an association of this driver, in their
\* order, followed by the one line `package-lock.json merge=<name>`.
C6_AddKeepsOtherLines ==
  \A i \in 1..Len(edLog) :
    (edLog[i].op = "add" /\ edLog[i].before.exists)
    => Lines(edLog[i].after.data)
         = SelectSeq(Lines(edLog[i].before.data),
                     LAMBDA l : l # AssocText(edLog[i].driverName))
           \o <<AssocText(edLog[i].driverName)>>

(* ------------------------------------------------------------------ *)
(* Properties of the merge command                                      *)
(* ------------------------------------------------------------------ *)
\* C8: when merge has returned, `npm install && npm ls` was run in the
\* directory of the target lockfile and the value returned is true exactly
\* when both the install and the consistency check succeeded.
C8_MergeReturnsInstallStatus ==
  m.returned =>
    /\ m.ran
    /\ m.cwd = m.filepath
    /\ m.result = (m.installOk /\ m.lsOk)

\* merge returned false after an install that succeeded and a check that
\* failed
C8_Witness ==
  /\ m.returned
  /\ m.installOk /\ ~m.lsOk
  /\ ~m.result

\* C9: when the move to the trash of any one node_modules directory has
\* failed, merge neither throws nor stops: every other directory is moved,
\* the install-and-check command is run and merge returns a boolean.
C9_TrashFailureTolerated ==
  ( /\ mpc = "done"
    /\ \E d \in DOMAIN m.trash : m.trash[d] \in {"caught", "failed"} )
  => /\ ~m.thrown
     /\ m.ran
     /\ m.returned
     /\ \A d \in DOMAIN m.trash : m.trash[d] # "pending"

\* the npm version check reports a major version below 7, or fails
VersionCheckFails ==
  \/ npm.failed
  \/ LET major == ParseInt(FirstPart(Trim(npm.stdout)))
     IN major.nan \/ major.n < 7

\* C10: when the npm version check reports a major version below 7 or
\* fails, no step of the merge command writes a file, trashes a directory,
\* runs the install or invokes merge, and the command ends with a non-zero
\* exit status.
C10_VersionGateBlocksMutation ==
  [][ VersionCheckFails =>
        /\ lock' = lock
        /\ nm' = nm
        /\ trashed' = trashed
        /\ ~m'.invoked
        /\ ~m'.ran
        /\ (mpc' = "done" => exitCode' = 1) ]_vars

\* npm 6.9.9 next to a lockfile and node_modules: the command has ended
\* with status 1 without throwing
C10_Witness ==
  /\ mpc = "done"
  /\ VersionCheckFails /\ ~npm.failed
  /\ ~m.thrown
  /\ exitCode = 1
  /\ lock[Cwd] = "ours"
  /\ nm # {}

(* ------------------------------------------------------------------ *)
(* Properties of the VersionGate                                        *)
(* ------------------------------------------------------------------ *)
\* the text before the first dot of the trimmed output
LeadingComponent(stdout) == FirstPart(Trim(stdout))

\* the text is an integer in decimal: digits only, after an optional sign
IsValidInteger(str) ==
  LET body == IF str # <<>> /\ str[1] \in {"+", "-"} THEN Tail(str) ELSE str
  IN body # <<>> /\ \A i \in 1..Len(body) : body[i] \in DigitChars

\* C11: the version check answers true exactly when the query succeeded and
\* the leading dot-separated component of the reported version is a valid
\* integer greater than or equal to 7.
C11_VersionCheckExact ==
  mpc = "checked" =>
    ( m.gate <=> ( /\ ~npm.failed
                   /\ IsValidInteger(LeadingComponent(npm.stdout))
                   /\ ParseInt(LeadingComponent(npm.stdout)).n >= 7 ) )

(* ------------------------------------------------------------------ *)
(* Properties of uninstall                                              *)
(* ------------------------------------------------------------------ *)
\* this step is a whole uninstall command
UninstallStep ==
  /\ pc = "idle"
  /\ Len(hist') = Len(hist) + 1
  /\ hist'[Len(hist')].op = "uninstall"

\* the step took a merge.<d>.* key out of a configuration file, or the
\* association line of d out of an attributes file, or a file off the disk
LostSomething(d) ==
  \/ \E file \in CfgFiles, k \in MergeKeys(d) :
       cfg[file][k] # NoVal /\ cfg'[file][k] = NoVal
  \/ \E p \in AttrPaths : HasAssociation(fs[p], d) /\ ~HasAssociation(fs'[p], d)
  \/ \E p \in AttrPaths : fs[p].exists /\ ~fs'[p].exists

\* C12: an uninstall that ends without error returns true exactly when it
\* removed the driver's configuration section, the association line or the
\* emptied attributes file.
C12_UninstallReturnsWhetherRemoved ==
  [][ (UninstallStep /\ hist'[Len(hist')].ok) =>
        (hist'[Len(hist')].ret <=> LostSomething(hist'[Len(hist')].driverName)) ]_vars

\* an uninstall returned true after it took the section out of the
\* configuration and the line out of the user's attributes file
C12_Witness ==
  /\ pc = "idle" /\ hist # <<>>
  /\ Last.op = "uninstall" /\ Last.ok /\ Last.ret
  /\ Last.written # {}
  /\ HasAssociation(Last.pre, Last.driverName)
  /\ ~HasAssociation(fs[Last.gitAttributesFilepath], Last.driverName)

\* C13: when the scope holds no merge.<name>.driver key, uninstall returns
\* false without an error and leaves every configuration file and every
\* attributes file as it was.
C13_UninstallWithoutDriverIsNoOp ==
  [][ ( /\ UninstallStep
        /\ GetGitConfigWithOrigins(cfg, hist'[Len(hist')].local)
             [MergeKey(hist'[Len(hist')].driverName, "driver")] = NoEntry )
      => /\ hist'[Len(hist')].ok
         /\ ~hist'[Len(hist')].ret
         /\ cfg' = cfg
         /\ cfgTail' = cfgTail
         /\ fs' = fs ]_vars

\* an uninstall found no driver in its scope and returned false next to an
\* attributes file that holds the association line
C13_Witness ==
  /\ pc = "idle" /\ hist # <<>>
  /\ Last.op = "uninstall" /\ Last.ok /\ ~Last.ret
  /\ GetGitConfigWithOrigins(cfg, Last.local)[MergeKey(Last.driverName, "driver")] = NoEntry
  /\ \E p \in AttrPaths : HasAssociation(fs[p], Last.driverName)


(* ------------------------------------------------------------------ *)
(* Properties of install                                                *)
(* ------------------------------------------------------------------ *)
\* C14: when install ends with success, the configuration of its scope
\* holds merge.<name>.name and holds merge.<name>.driver equal to the
\* command supplied, or to `npx package-lock-merge-driver merge %A %O %B %P`
\* when none was, and the attributes file at the returned path exists with
\* the line `package-lock.json merge=<name>`; an install in the local scope
\* that finds no core.attributesfile uses <git-dir>/info/attributes.
C14_InstallPostcondition ==
  [][ /\ ( pc = "install" /\ pc' = "idle" /\ hist'[Len(hist')].ok )
         => LET gitConfig == GetGitConfigWithOrigins(cfg', inst.local)
                returned == hist'[Len(hist')].gitAttributesFilepath
            IN /\ gitConfig[MergeKey(inst.driverName, "name")].value # ""
               /\ gitConfig[MergeKey(inst.driverName, "driver")].value
                    = IF inst.commandArg = NoCommand
                      THEN "npx package-lock-merge-driver merge %A %O %B %P"
                      ELSE inst.commandArg
               /\ returned = inst.gitAttributesFilepath
               /\ HasAssociation(fs'[returned], inst.driverName)
      /\ ( /\ pc = "idle" /\ pc' = "install" /\ inst'.local
           /\ GetGitConfigWithOrigins(cfg, TRUE)[CoreAttributesfile] = NoEntry )
         => inst'.gitAttributesFilepath = ".git/info/attributes" ]_vars

\* a local install with a command of its own ended with success in a
\* repository that had no core.attributesfile
C14_Witness ==
  /\ pc = "idle" /\ hist # <<>>
  /\ Last.op = "install" /\ Last.ok /\ Last.local
  /\ Last.gitAttributesFilepath = ".git/info/attributes"
  /\ Last.wroteCreated
  /\ GetGitConfigWithOrigins(cfg, TRUE)[MergeKey(Last.driverName, "driver")].value
       = CustomCommand
  /\ HasAssociation(fs[".git/info/attributes"], Last.driverName)

(* ------------------------------------------------------------------ *)
(* Properties of MergeEngine and WorkspaceInspector                     *)
(* ------------------------------------------------------------------ *)
\* C15: the install-and-check command is issued only once the write of the
\* three-way merge output to the target lockfile has completed, so when
\* merge reports failure the target holds what was written.
C15_WriteBeforeInstall ==
  [][ /\ (~m.ran /\ m'.ran)
         => /\ m.tWrite = "done"
            /\ lock[m.filepath] = m.stdout
      /\ (m'.returned /\ ~m'.result)
         => /\ m'.tWrite = "done"
            /\ lock'[m'.filepath] # "none" ]_vars

\* merge returned false after `npm install` failed, and the target holds
\* the conflicted output of git merge-file
C15_Witness ==
  /\ m.returned /\ ~m.result /\ ~m.installOk
  /\ m.stdout = "conflicted"
  /\ lock[m.filepath] = "conflicted"

\* C16: getWorkspaces returns, in order, the quoted strings of the
\* workspaces array of the manifest, with or without conflict markers around
\* other properties, and the empty sequence when the manifest is missing or
\* has no workspaces array.
C16_WorkspaceExtraction ==
  m.tWorkspaces = "done" =>
    /\ \A conflicted \in BOOLEAN, globs \in GlobLists :
         manifest = WorkspacesManifest(conflicted, globs) => m.workspaces = globs
    /\ manifest \in {NoManifest, PlainManifest} => m.workspaces = <<>>

\* two workspaces were read, in their order, from a manifest with conflict
\* markers
C16_Witness ==
  /\ m.tWorkspaces = "done"
  /\ manifest = WorkspacesManifest(TRUE, <<"b", "a">>)
  /\ m.workspaces = <<"b", "a">>

\* the lockfile parses as JSON
IsValidJson(kind) == kind \in {"ours", "merged", "resolved"}
\* the lockfile holds `<<<<<<<`, `=======` or `>>>>>>>`
HasConflictMarkers(kind) == kind = "conflicted"

C18_InstallAfterTrash ==
  m.ran =>
    /\ DOMAIN m.trash = TrashTargets(m.workspaceRoot, m.workspaces)
    /\ \A d \in DOMAIN m.trash : m.trash[d] \in {"moved", "caught", "failed"}

\* the install ran after three trash calls, one of which had failed and
\* another had moved a directory
C18_Witness ==
  /\ m.ran
  /\ Cardinality(DOMAIN m.trash) = 3
  /\ \E d \in DOMAIN m.trash : m.trash[d] = "caught"
  /\ trashed # {}

\* C19: in install the attributes file is written only once its directory
\* exists: the attributes task never fails because the write ran before the
\* directory was made.
C19_WriteAfterMkdir ==
  /\ pc = "install" => inst.tAttrs # "failed"
  /\ \A i \in 1..Len(hist) :
       (hist[i].op = "install" /\ hist[i].gitAttributesFilepath # "") => hist[i].ok

\* C20: a step of install changes merge.<name>.driver only after the write
\* of merge.<name>.name by the same install has completed.
C20_NameBeforeDriver ==
  [][ ( /\ pc = "install"
        /\ cfg'[MainFile(inst.local)][MergeKey(inst.driverName, "driver")]
             # cfg[MainFile(inst.local)][MergeKey(inst.driverName, "driver")] )
      => /\ inst.tConfig = "driver"
         /\ cfg[MainFile(inst.local)][MergeKey(inst.driverName, "name")]
              = DriverDescription ]_vars

\* an install in a scope without the driver has written the name and not
\* yet the driver
C20_Witness ==
  /\ pc = "install" /\ inst.tConfig = "driver"
  /\ cfg[MainFile(inst.local)][MergeKey(inst.driverName, "name")] = DriverDescription
  /\ cfg[MainFile(inst.local)][MergeKey(inst.driverName, "driver")] = NoVal


(* ------------------------------------------------------------------ *)
(* Frame of uninstall and of the attributes-file locator                *)
(* ------------------------------------------------------------------ *)
\* the files command i of the history overwrote or deleted
Touched(i) == hist[i].written \cup hist[i].unlinked

\* C21: the only file an uninstall overwrites or deletes is the attributes
\* file to which the preceding successful install of the same driver name
\* and scope wrote the association line, and never a Git configuration
\* file.
C21_UninstallTouchesOnlyAttributesFile ==
  \A i \in 1..Len(hist) :
    hist[i].op = "uninstall" =>
      /\ Touched(i) \cap CfgFiles = {}
      /\ ( /\ i > 1
           /\ hist[i - 1].op = "install" /\ hist[i - 1].ok
           /\ hist[i - 1].driverName = hist[i].driverName
           /\ hist[i - 1].local = hist[i].local )
         => Touched(i) \subseteq {hist[i - 1].gitAttributesFilepath}

\* the configuration files of the local scope
LocalFiles == {LocalConfig, LocalInclude}

\* the step belongs to a command, started or running, of scope `local`
StepOfScope(local) ==
  \/ pc = "install" /\ inst.local = local
  \/ pc = "idle" /\ pc' = "install" /\ inst'.local = local
  \/ pc = "idle" /\ Len(hist') = Len(hist) + 1 /\ hist'[Len(hist')].local = local

\* C22: a step of an install or uninstall of one scope leaves
\* core.attributesfile and merge.<name>.created of the other scope's
\* configuration files as they were.
C22_LocatorStaysInScope ==
  [][ \A local \in BOOLEAN, file \in CfgFiles, name \in Drivers :
        (StepOfScope(local) /\ (file \in LocalFiles) # local) =>
          /\ cfg'[file][CoreAttributesfile] = cfg[file][CoreAttributesfile]
          /\ cfg'[file][MergeKey(name, "created")] = cfg[file][MergeKey(name, "created")]
    ]_vars

\* C23: an uninstall leaves core.attributesfile of every configuration
\* file at the value it had and writes no merge.<name>.created key.
C23_UninstallSetsNoKey ==
  [][ UninstallStep =>
        \A file \in CfgFiles, name \in Drivers :
          /\ cfg'[file][CoreAttributesfile] = cfg[file][CoreAttributesfile]
          /\ cfg[file][MergeKey(name, "created")] = NoVal
               => cfg'[file][MergeKey(name, "created")] = NoVal ]_vars


(* ------------------------------------------------------------------ *)
(* Failures of git                                                      *)
(* ------------------------------------------------------------------ *)
\* the step appends the record of a command that ended
CommandEnds(op) ==
  /\ Len(hist') = Len(hist) + 1
  /\ hist'[Len(hist')].op = op

\* C24: when the read-back that follows the write of core.attributesfile
\* does not confirm the path, install stops with an error at once: it
\* writes no merge.<name>.created, merge.<name>.name or merge.<name>.driver
\* key, no directory and no attributes file.
C24_UnconfirmedPathStopsInstall ==
  [][ /\ (pc = "idle" /\ pc' = "install") => inst'.git.confirm = "ok"
      /\ ( /\ pc = "idle"
           /\ CommandEnds("install")
           /\ hist'[Len(hist')].git.confirm # "ok" )
         => /\ ~hist'[Len(hist')].ok
            /\ hist'[Len(hist')].setPath
            /\ \A file \in CfgFiles, k \in MergeKeys(hist'[Len(hist')].driverName) :
                 cfg'[file][k] = cfg[file][k]
            /\ fs' = fs
            /\ dirs' = dirs ]_vars

\* an install has failed after it wrote core.attributesfile and could not
\* read it back; the scope has the setting and nothing else of the driver
C24_Witness ==
  /\ pc = "idle" /\ hist # <<>>
  /\ Last.op = "install" /\ ~Last.ok
  /\ Last.git.confirm = "unconfirmed" /\ Last.setPath
  /\ cfg[MainFile(Last.local)][CoreAttributesfile] # NoVal
  /\ \A k \in MergeKeys(Last.driverName) : cfg[MainFile(Last.local)][k] = NoVal
  /\ \A p \in AttrPaths : ~HasAssociation(fs[p], Last.driverName)

\* C25: an install that failed after it had started to persist the
\* attributes path, followed by the same install ending with success,
\* leaves what one successful install leaves in a scope that had no
\* core.attributesfile: merge.<name>.name, merge.<name>.driver,
\* merge.<name>.created, core.attributesfile and exactly one association
\* line.
C25_RerunCompletesInstall ==
  ( /\ pc = "idle"
    /\ Len(hist) >= 2
    /\ Prev.op = "install" /\ ~Prev.ok /\ Prev.setPath
    /\ Last.op = "install" /\ Last.ok
    /\ Last.driverName = Prev.driverName
    /\ Last.local = Prev.local )
  => LET main == cfg[MainFile(Last.local)]
     IN /\ main[MergeKey(Last.driverName, "name")] # NoVal
        /\ main[MergeKey(Last.driverName, "driver")] # NoVal
        /\ main[MergeKey(Last.driverName, "created")] # NoVal
        /\ main[CoreAttributesfile] # NoVal
        /\ CountAssociations(fs[Last.gitAttributesFilepath], Last.driverName) = 1


(* ------------------------------------------------------------------ *)
(* The attributes-file locator during install                           *)
(* ------------------------------------------------------------------ *)
\* the step is the start of an install of scope `local`, or its end when
\* it fails before its tasks start
InstallLocates(local) ==
  /\ pc = "idle"
  /\ \/ pc' = "install" /\ inst'.local = local
     \/ CommandEnds("install") /\ hist'[Len(hist')].local = local

\* the convention-based path of a scope
DefaultAttributes(local) ==
  IF local THEN ".git/info/attributes"
  ELSE IF xdg THEN "/xdg/git/attributes" ELSE "/home/.config/git/attributes"

\* C26: an install whose scope has a core.attributesfile setting goes on
\* with that path, a leading ~/ replaced by the home directory, and
\* neither then nor later changes core.attributesfile or writes
\* merge.<name>.created; an install whose scope has none goes on with the
\* default path of the scope and has stored it in the scope's main file.
C26_InstallUsesConfiguredPath ==
  [][ /\ \A local \in BOOLEAN :
           InstallLocates(local) =>
             LET setting == GetGitConfigWithOrigins(cfg, local)[CoreAttributesfile]
             IN IF setting # NoEntry
                THEN /\ pc' = "install"
                     /\ inst'.gitAttributesFilepath
                          = IF setting.value = "~/.gitattributes"
                            THEN "/home/.gitattributes" ELSE setting.value
                     /\ ~inst'.setPath /\ ~inst'.wroteCreated
                     /\ cfg' = cfg
                ELSE /\ pc' = "install"
                     /\ inst'.gitAttributesFilepath = DefaultAttributes(local)
                     /\ cfg'[MainFile(local)][CoreAttributesfile] = DefaultAttributes(local)
      /\ pc = "install" =>
           \A file \in CfgFiles :
             /\ cfg'[file][CoreAttributesfile] = cfg[file][CoreAttributesfile]
             /\ cfg'[file][MergeKey(inst.driverName, "created")]
                  = cfg[file][MergeKey(inst.driverName, "created")] ]_vars

\* an install has ended with success on the file that the scope's
\* core.attributesfile names with a leading ~/, and the scope has no
\* merge.<name>.created
C26_Witness ==
  /\ pc = "idle" /\ hist # <<>>
  /\ Last.op = "install" /\ Last.ok
  /\ GetGitConfigWithOrigins(cfg, Last.local)[CoreAttributesfile] # NoEntry
  /\ GetGitConfigWithOrigins(cfg, Last.local)[CoreAttributesfile].value = "~/.gitattributes"
  /\ Last.gitAttributesFilepath = "/home/.gitattributes"
  /\ ~Last.setPath
  /\ GetGitConfigWithOrigins(cfg, Last.local)[MergeKey(Last.driverName, "created")] = NoEntry
  /\ HasAssociation(fs["/home/.gitattributes"], Last.driverName)


(* ------------------------------------------------------------------ *)
(* The lines uninstall keeps                                            *)
(* ------------------------------------------------------------------ *)
\* the merge driver a line names: the first word after `merge=`
MergeDriverOf(l) ==
  IF \E d \in Drivers : l = AssocMoreText(d)
  THEN CHOOSE d \in Drivers : l = AssocMoreText(d)
  ELSE l.mergeAttr

\* the lines of a text that are not empty
TextLines(data) == SelectSeq(Lines(data), LAMBDA l : l # EmptyLine)

\* C27: the file uninstall writes back holds, in their order, the lines of
\* the file it read that have no merge attribute or name another merge
\* driver, and none of the lines that name the driver.
C27_FilterKeepsOtherLines ==
  \A i \in 1..Len(edLog) :
    (edLog[i].op = "remove" /\ edLog[i].after.exists) =>
      TextLines(edLog[i].after.data)
        = SelectSeq(TextLines(edLog[i].before.data),
                    LAMBDA l : MergeDriverOf(l) # edLog[i].driverName)


(* ------------------------------------------------------------------ *)
(* install followed by uninstall on a user's attributes file            *)
(* ------------------------------------------------------------------ *)
\* C28: when the attributes file existed with unrelated content before a
\* successful install, a successful uninstall of the same driver and scope
\* leaves the file with exactly the content it had before the install.
C28_RoundTripRestoresFile ==
  (InstalledThenUninstalled /\ HasUnrelatedContent(Prev.pre))
    => fs[Prev.gitAttributesFilepath] = Prev.pre


(* ------------------------------------------------------------------ *)
(* Failures of the section removal and of the configuration listing     *)
(* ------------------------------------------------------------------ *)
\* C29: when `git config --remove-section` fails with "no such section",
\* uninstall ends without error after it located the attributes file and,
\* if the file exists, wrote it back or deleted it; when the removal fails
\* otherwise, uninstall ends with that error and every file is as it was.
C29_RemovalFailure ==
  [][ /\ ( UninstallStep /\ hist'[Len(hist')].git.remove = "no such section" )
         => /\ hist'[Len(hist')].ok
            /\ hist'[Len(hist')].gitAttributesFilepath # ""
            /\ hist'[Len(hist')].pre.exists
                 => hist'[Len(hist')].written \cup hist'[Len(hist')].unlinked
                      = {hist'[Len(hist')].gitAttributesFilepath}
      /\ ( UninstallStep /\ hist'[Len(hist')].git.remove = "error" )
         => /\ ~hist'[Len(hist')].ok
            /\ hist'[Len(hist')].written \cup hist'[Len(hist')].unlinked = {}
            /\ fs' = fs
            /\ cfgTail' = cfgTail
            /\ cfg' = cfg ]_vars

\* an uninstall whose section removal failed with "no such section" ended
\* without error and took the association line out of the attributes file,
\* the driver being still registered
C29_Witness ==
  /\ pc = "idle" /\ hist # <<>>
  /\ Last.op = "uninstall" /\ Last.ok
  /\ Last.git.remove = "no such section"
  /\ GetGitConfigWithOrigins(cfg, Last.local)[MergeKey(Last.driverName, "driver")] # NoEntry
  /\ Last.gitAttributesFilepath \in AttrPaths
  /\ HasAssociation(Last.pre, Last.driverName)
  /\ Last.written = {Last.gitAttributesFilepath}
  /\ ~HasAssociation(fs[Last.gitAttributesFilepath], Last.driverName)

\* C30: when the listing with which a command reads the configuration of
\* the requested scope fails, the install or uninstall ends at once with an
\* error, and no configuration file, attributes file or directory has
\* changed; an install does not start its tasks.
C30_ConfigReadFailure ==
  [][ /\ (pc = "idle" /\ pc' = "install") => inst'.git.list = "ok"
      /\ ( /\ pc = "idle"
           /\ Len(hist') = Len(hist) + 1
           /\ hist'[Len(hist')].git.list = "fails" )
         => /\ ~hist'[Len(hist')].ok
            /\ pc' = "idle"
            /\ cfg' = cfg
            /\ cfgTail' = cfgTail
            /\ fs' = fs
            /\ dirs' = dirs ]_vars

\* after a successful install, an uninstall of the same driver and scope
\* failed on the listing and the driver is registered as before
C30_Witness ==
  /\ pc = "idle" /\ Len(hist) >= 2
  /\ Prev.op = "install" /\ Prev.ok
  /\ Last.op = "uninstall" /\ ~Last.ok
  /\ Last.git.list = "fails"
  /\ Last.driverName = Prev.driverName /\ Last.local = Prev.local
  /\ cfg[MainFile(Last.local)][MergeKey(Last.driverName, "driver")] # NoVal
  /\ HasAssociation(fs[Prev.gitAttributesFilepath], Last.driverName)


(* ------------------------------------------------------------------ *)
(* The steps of merge                                                   *)
(* ------------------------------------------------------------------ *)
\* C31: whatever `git merge-file` leaves as output, once merge has ended
\* the output was written to the target path and the trash calls were
\* started.
C31_MergeFileNeverDecides ==
  (m.invoked /\ mpc \in {"rejected", "returned", "done"})
    => /\ m.tWrite = "done"
       /\ DOMAIN m.trash # {}

\* C32: the directories merge hands to trash are the node_modules of the
\* target lockfile's directory and, for each extracted workspace glob, the
\* node_modules under that glob in the same directory; only these are ever
\* moved.
C32_TrashSet ==
  (m.invoked /\ mpc \in {"trash", "returned"}) =>
    /\ DOMAIN m.trash
         = {[dir |-> m.filepath, glob |-> "."]}
           \cup {[dir |-> m.filepath, glob |-> m.workspaces[k]] :
                   k \in 1..Len(m.workspaces)}
    /\ trashed \subseteq DOMAIN m.trash

\* merge has returned after it moved the node_modules of the root and of
\* two workspaces
C32_Witness ==
  /\ mpc = "returned"
  /\ Len(m.workspaces) = 2
  /\ Cardinality(trashed) = 3
  /\ [dir |-> m.filepath, glob |-> "."] \in trashed

\* merge ran the command line
Executed(commandLine) ==
  \E i \in 1..Len(m.commands) : m.commands[i] = commandLine

NearestLockfile ==
  IF \E d \in 0..Cwd : lock[d] # "none"
  THEN CHOOSE d \in 0..Cwd :
         /\ lock[d] # "none"
         /\ \A e \in 0..Cwd : lock[e] # "none" => e <= d
  ELSE Cwd

\* C34: a lockfile search that has started ends, and merge is then invoked
\* on the package-lock.json of the nearest directory that has one, the
\* working directory included, or on ./package-lock.json when no directory
\* up to the root has one.
C34_LockfileSearch ==
  /\ [][ (mpc = "search" /\ mpc' # "search")
           => (mpc' = "write" /\ m'.invoked /\ m'.filepath = NearestLockfile) ]_vars
  /\ (mpc = "search" ~> mpc = "write")

\* the search has ended on the lockfile of a directory above the working
\* directory
C34_Witness ==
  /\ mpc = "write"
  /\ m.currentDir < Cwd
  /\ m.filepath = m.currentDir
  /\ lock[m.filepath] # "none"
  /\ lock[Cwd] = "none"


(* ------------------------------------------------------------------ *)
(* The configuration file install reports                               *)
(* ------------------------------------------------------------------ *)
\* C35: when an install has ended with success, the configuration file it
\* returns as source holds merge.<name>.driver.
C35_SourceHoldsDriver ==
  (pc = "idle" /\ hist # <<>> /\ Last.op = "install" /\ Last.ok) =>
    /\ Last.source \in CfgFiles
    /\ cfg[Last.source][MergeKey(Last.driverName, "driver")] # NoVal

====
